---------------------------- MODULE Spec2Model ----------------------------
(***************************************************************************)
(* Model of the ORE optimal-deployment instruction                         *)
(* (program/src/instruction/ore_deploy.rs, program/src/state/ore_round.rs).*)
(*                                                                         *)
(* The program computes on u64 and i64 values and on the constants         *)
(* 1_000_000_000 and 24_252_500_000.  TLC's integers are 32 bits wide, so  *)
(* a u64 is held as its numeral in base 10^4: a sequence of limbs, least   *)
(* significant first, with no leading zero limb (zero is << >>).  An i64   *)
(* is a sign and a magnitude.  Every operator below computes the exact     *)
(* mathematical result on numerals; the u64/i64 operators then clamp or    *)
(* wrap it at the width the Rust operation has.                            *)
(***************************************************************************)
EXTENDS Integers, Sequences, FiniteSets, TLC

----------------------------------------------------------------------------
(* Natural numbers as base-10^4 numerals *)

Base == 100 * 100

RECURSIVE Norm(_)
Norm(a) ==
    IF a = <<>> THEN <<>>
    ELSE IF a[Len(a)] = 0 THEN Norm(SubSeq(a, 1, Len(a) - 1))
    ELSE a

RECURSIVE Num(_)
\* the numeral of a TLC integer n >= 0
Num(n) == IF n = 0 THEN <<>> ELSE <<n % Base>> \o Num(n \div Base)

RECURSIVE LessFrom(_, _, _)
LessFrom(a, b, k) ==
    IF k = 0 THEN FALSE
    ELSE IF a[k] # b[k] THEN a[k] < b[k]
    ELSE LessFrom(a, b, k - 1)

Less(a, b) ==
    IF Len(a) # Len(b) THEN Len(a) < Len(b) ELSE LessFrom(a, b, Len(a))

Leq(a, b) == ~Less(b, a)

RECURSIVE AddC(_, _, _)
AddC(a, b, c) ==
    IF a = <<>> /\ b = <<>> THEN (IF c = 0 THEN <<>> ELSE <<c>>)
    ELSE LET x == IF a = <<>> THEN 0 ELSE a[1]
             y == IF b = <<>> THEN 0 ELSE b[1]
             s == x + y + c
         IN  <<s % Base>> \o AddC(IF a = <<>> THEN a ELSE Tail(a),
                                  IF b = <<>> THEN b ELSE Tail(b),
                                  s \div Base)

Add(a, b) == AddC(a, b, 0)

RECURSIVE SubB(_, _, _)
\* a - b - c for a >= b + c, limbs not yet normalised
SubB(a, b, c) ==
    IF a = <<>> THEN <<>>
    ELSE LET y == IF b = <<>> THEN 0 ELSE b[1]
             d == a[1] - y - c
         IN  <<d % Base>> \o SubB(Tail(a),
                                  IF b = <<>> THEN b ELSE Tail(b),
                                  IF d < 0 THEN 1 ELSE 0)

\* a - b, for a >= b
Sub(a, b) == Norm(SubB(a, b, 0))

RECURSIVE MulLimbC(_, _, _)
MulLimbC(a, d, c) ==
    IF a = <<>> THEN (IF c = 0 THEN <<>> ELSE <<c>>)
    ELSE LET p == a[1] * d + c
         IN  <<p % Base>> \o MulLimbC(Tail(a), d, p \div Base)

\* a * d for one limb 0 <= d < Base
MulLimb(a, d) == IF d = 0 THEN <<>> ELSE MulLimbC(a, d, 0)

RECURSIVE Mul(_, _)
Mul(a, b) ==
    IF a = <<>> \/ b = <<>> THEN <<>>
    ELSE LET rest == Mul(a, Tail(b))
         IN  Add(MulLimb(a, b[1]),
                 IF rest = <<>> THEN <<>> ELSE <<0>> \o rest)

RECURSIVE QuotLimb(_, _, _, _)
\* the largest q in lo..hi with b * q <= r  (b * lo <= r is given)
QuotLimb(r, b, lo, hi) ==
    IF lo = hi THEN lo
    ELSE LET mid == (lo + hi + 1) \div 2
         IN  IF Leq(MulLimb(b, mid), r)
             THEN QuotLimb(r, b, mid, hi)
             ELSE QuotLimb(r, b, lo, mid - 1)

RECURSIVE DivModFrom(_, _, _, _)
\* long division of the limbs a[1..k] below a running remainder r < b:
\* the pair <<quotient limbs, least significant first, remainder>>.
\* A one-limb divisor divides each step in TLC's own integers.
DivModFrom(a, b, k, r) ==
    IF k = 0 THEN <<<<>>, r>>
    ELSE LET cur  == Norm(<<a[k]>> \o r)
             one  == (IF r = <<>> THEN 0 ELSE r[1]) * Base + a[k]
             q    == IF Len(b) = 1 THEN one \div b[1]
                     ELSE IF Less(cur, b) THEN 0
                     ELSE QuotLimb(cur, b, 1, Base - 1)
             rem  == IF Len(b) = 1 THEN Num(one % b[1])
                     ELSE IF q = 0 THEN cur
                     ELSE Sub(cur, MulLimb(b, q))
             rest == DivModFrom(a, b, k - 1, rem)
         IN  <<rest[1] \o <<q>>, rest[2]>>

\* floor(a / b) and a mod b, for b # 0
Div(a, b) == Norm(DivModFrom(a, b, Len(a), <<>>)[1])
Mod(a, b) == DivModFrom(a, b, Len(a), <<>>)[2]

----------------------------------------------------------------------------
(* u64 and i64 arithmetic as Rust defines it *)

TwoTo32 == Mul(Num(65536), Num(65536))
TwoTo64 == Mul(TwoTo32, TwoTo32)
TwoTo63 == Div(TwoTo64, Num(2))
MaxU64  == Sub(TwoTo64, Num(1))

U64Clamp(exact) == IF Less(MaxU64, exact) THEN MaxU64 ELSE exact

saturating_add(a, b) == U64Clamp(Add(a, b))

saturating_sub(a, b) == IF Less(a, b) THEN <<>> ELSE Sub(a, b)

saturating_mul(a, b) == U64Clamp(Mul(a, b))

\* The operators `*` and `+` on u64.  Rust panics on overflow when the build
\* has overflow checks and wraps modulo 2^64 when it has not: val is the
\* wrapped result and ovf tells that the exact result did not fit.
U64Of(exact) ==
    IF Less(MaxU64, exact)
    THEN [val |-> Mod(exact, TwoTo64), ovf |-> TRUE]
    ELSE [val |-> exact, ovf |-> FALSE]

U64Mul(a, b) == U64Of(Mul(a, b))
U64Add(a, b) == U64Of(Add(a, b))

\* i64: a sign and a magnitude (zero is never negative)
SInt(neg, mag) == [neg |-> neg /\ mag # <<>>, mag |-> mag]
I64Min == SInt(TRUE, TwoTo63)
I64Max == SInt(FALSE, Sub(TwoTo63, Num(1)))

SLess(a, b) ==
    IF a.neg # b.neg THEN a.neg
    ELSE IF a.neg THEN Less(b.mag, a.mag)
    ELSE Less(a.mag, b.mag)

SLeq(a, b) == ~SLess(b, a)

\* exact a - b
SSub(a, b) ==
    IF a.neg # b.neg THEN SInt(a.neg, Add(a.mag, b.mag))
    ELSE IF Less(a.mag, b.mag) THEN SInt(~a.neg, Sub(b.mag, a.mag))
    ELSE SInt(a.neg, Sub(a.mag, b.mag))

\* exact a * b
SMul(a, b) == SInt(a.neg # b.neg, Mul(a.mag, b.mag))

\* a / d on i64 for d > 0: Rust's division truncates toward zero
STruncDiv(a, d) == SInt(a.neg, Div(a.mag, d))

\* `u as i64`: the same 64 bits read as two's complement
AsI64(u) ==
    IF Less(u, TwoTo63) THEN SInt(FALSE, u) ELSE SInt(TRUE, Sub(TwoTo64, u))

\* i64::saturating_sub
I64Clamp(d) ==
    IF SLess(d, I64Min) THEN I64Min
    ELSE IF SLess(I64Max, d) THEN I64Max
    ELSE d

i64_saturating_sub(a, b) == I64Clamp(SSub(a, b))

\* the operator `*` on i64: wrapped result, and whether it overflowed
I64Wrap(neg, m) == AsI64(IF neg /\ m # <<>> THEN Sub(TwoTo64, m) ELSE m)

I64Of(p) ==
    IF SLess(p, I64Min) \/ SLess(I64Max, p)
    THEN [val |-> I64Wrap(p.neg, Mod(p.mag, TwoTo64)), ovf |-> TRUE]
    ELSE [val |-> p, ovf |-> FALSE]

I64Mul(a, b) == I64Of(SMul(a, b))

\* an i16 or other small signed integer of TLC as an i64
SNum(n) == IF n < 0 THEN SInt(TRUE, Num(-n)) ELSE SInt(FALSE, Num(n))

----------------------------------------------------------------------------
(* The pure functions of ore_deploy.rs.  A function that uses `*` or `+`   *)
(* returns [val, ovf]: its value with every such operation wrapped, and    *)
(* whether one of them overflowed.                                         *)

ORE_DEPLOY_IX_DISCRIMINATOR == 6

Zero == <<>>

NB == 25
MaxCandidates == 5
NoIndex == 255

Billion  == Num(1000000000)
C_SCALED == Mul(Num(24252500), Num(1000))

\* y = (x + n / x) >> 1
NewtonStep(n, x) == Div(Add(x, Div(n, x)), Num(2))

RECURSIVE IsqrtLoop(_, _, _, _)
\* for _ in 0..6 { if y >= x { return x; } x = y; y = (x + n / x) >> 1; } x
IsqrtLoop(n, x, y, left) ==
    IF left = 0 THEN x
    ELSE IF Leq(x, y) THEN x
    ELSE IsqrtLoop(n, y, NewtonStep(n, y), left - 1)

IsqrtIterations == 6

\* x + n / x cannot exceed u64: x <= n / 2 and n / x <= n / 2 at the start,
\* and a Newton iterate is never below the root.
IsqrtFrom(n, x) == IsqrtLoop(n, x, NewtonStep(n, x), IsqrtIterations)

isqrt(n) ==
    IF n = <<>> THEN <<>>
    ELSE IF Leq(n, Num(3)) THEN Num(1)
    ELSE IsqrtFrom(n, Div(n, Num(2)))

\* (pool * 9000) / 10_000 + ore_value, the pot if the block wins
PotOf(w, ore_value) ==
    [val |-> saturating_add(Div(w.val, Num(10000)), ore_value), ovf |-> w.ovf]

PotValue(pool, ore_value) == PotOf(U64Mul(pool, Num(9000)), ore_value)

\* isqrt(v * block_size * 1e9 / C) - block_size, all saturating
KellyClosedForm(v, block_size) ==
    saturating_sub(
        isqrt(Div(saturating_mul(saturating_mul(v, block_size), Billion),
                  C_SCALED)),
        block_size)

ConvergenceTolerance == 100
RefineIterations == 5

\* |a - b| on u64
AbsDiff(a, b) == IF Less(a, b) THEN Sub(b, a) ELSE Sub(a, b)

RECURSIVE KellyRefine(_, _, _, _, _, _)
\* the tail of one refinement: the new estimate is returned when it is within
\* the tolerance of the old one, and refined again when it is not
KellyConverge(y_star, new_y_star, ovf, losing_pool, block_size, ore_value, left) ==
    IF Less(AbsDiff(y_star, new_y_star), Num(ConvergenceTolerance))
    THEN [val |-> new_y_star, ovf |-> ovf]
    ELSE KellyRefine(new_y_star, ovf, losing_pool, block_size, ore_value,
                     left - 1)

\* one refinement once new_v, the pot without our own deployment, is known
KellyRefineWith(y_star, new_v, ovf, losing_pool, block_size, ore_value, left) ==
    IF new_v.val = <<>> THEN [val |-> <<>>, ovf |-> ovf \/ new_v.ovf]
    ELSE KellyConverge(y_star, KellyClosedForm(new_v.val, block_size),
                       ovf \/ new_v.ovf, losing_pool, block_size, ore_value,
                       left)

\* the refinement loop of calculate_kelly_optimal, `left` iterations to go
KellyRefine(y_star, ovf, losing_pool, block_size, ore_value, left) ==
    IF left = 0 \/ y_star = <<>> THEN [val |-> y_star, ovf |-> ovf]
    ELSE KellyRefineWith(y_star,
                         PotValue(saturating_sub(losing_pool, y_star),
                                  ore_value),
                         ovf, losing_pool, block_size, ore_value, left)

\* calculate_kelly_optimal once v, the pot if the block wins, is known
KellyFrom(v, losing_pool, block_size, ore_value) ==
    IF v.val = <<>> THEN [val |-> <<>>, ovf |-> v.ovf]
    ELSE KellyRefine(KellyClosedForm(v.val, block_size), v.ovf,
                     losing_pool, block_size, ore_value, RefineIterations)

calculate_kelly_optimal(block_size, total_pool, ore_value) ==
    IF block_size = <<>> \/ Leq(total_pool, block_size)
    THEN [val |-> <<>>, ovf |-> FALSE]
    ELSE KellyFrom(PotValue(saturating_sub(total_pool, block_size),
                            ore_value),
                   saturating_sub(total_pool, block_size), block_size,
                   ore_value)

\* expected_win - expected_loss - admin_fee from the three products
EvOf(win_num, loss_num, fee_num, ovf) ==
    [val |-> i64_saturating_sub(
                 i64_saturating_sub(AsI64(Div(win_num.val, Num(25 * 10000))),
                                    AsI64(Div(loss_num.val, Num(25)))),
                 AsI64(Div(fee_num.val, Num(10000)))),
     ovf |-> ovf \/ win_num.ovf \/ loss_num.ovf \/ fee_num.ovf]

\* share_bps = deploy_amount * 10_000 / total_block, and pot * share_bps
EvFrom(share_num, total_block, pot, loss_num, fee_num) ==
    EvOf(U64Mul(pot.val, Div(share_num.val, total_block)), loss_num, fee_num,
         share_num.ovf \/ pot.ovf)

calculate_ev(block_size, deploy_amount, total_pool, ore_value) ==
    IF deploy_amount = <<>> \/ block_size = <<>>
    THEN [val |-> I64Min, ovf |-> FALSE]
    ELSE EvFrom(U64Mul(deploy_amount, Num(10000)),
                saturating_add(block_size, deploy_amount),
                PotValue(saturating_sub(total_pool, block_size), ore_value),
                U64Mul(deploy_amount, Num(24)),
                U64Mul(deploy_amount, Num(101)))

\* ore_value: (ore_price_lamports * 9) / 10 + (motherlode * 9) / 6250
Flagged(r, ovf) == [val |-> r.val, ovf |-> r.ovf \/ ovf]

\* base + motherlode_ev from the two products
OreValueOf(b, m) ==
    Flagged(U64Add(Div(b.val, Num(10)), Div(m.val, Num(6250))),
            b.ovf \/ m.ovf)

OreValue(ore_price_lamports, motherlode) ==
    OreValueOf(U64Mul(ore_price_lamports, Num(9)), U64Mul(motherlode, Num(9)))

\* A Rust array is the sequence of its elements: index k is position k + 1
At(arr, k) == arr[k + 1]
Put(arr, k, v) == [arr EXCEPT ![k + 1] = v]

RECURSIVE Fill(_, _)
\* [v; n]
Fill(n, v) == IF n = 0 THEN <<>> ELSE Append(Fill(n - 1, v), v)

\* the swap test with >= for >
OutOfOrderOrEqual(x, y) == Leq(y.size, x.size)

\* blocks[j].1 > blocks[j + 1].1, the test that swaps two neighbours
OutOfOrder(x, y) == Less(y.size, x.size)

Swap(blocks, j) ==
    Put(Put(blocks, j, At(blocks, j + 1)), j + 1, At(blocks, j))

RECURSIVE BubbleInner(_, _, _)
\* for j in 0..(24 - i)
BubbleInner(blocks, i, j) ==
    IF j >= (NB - 1) - i THEN blocks
    ELSE IF OutOfOrder(At(blocks, j), At(blocks, j + 1))
    THEN BubbleInner(Swap(blocks, j), i, j + 1)
    ELSE BubbleInner(blocks, i, j + 1)

RECURSIVE IndexBlocks(_, _)
\* blocks[i] = (i as u8, round.deployed[i]) for i in 0..n
IndexBlocks(deployed, n) ==
    IF n = 0 THEN <<>>
    ELSE Append(IndexBlocks(deployed, n - 1),
                [idx |-> n - 1, size |-> At(deployed, n - 1)])

\* scale_factor of calculate_optimal_deployments
U64DivOf(n, d) == [val |-> Div(n.val, d), ovf |-> n.ovf]

\* scale_factor without the budget: always 1.0
NeverScaled(total_budget, total_optimal) == [val |-> Billion, ovf |-> FALSE]

\* scale_factor without the test total_optimal > total_budget
AlwaysScaled(total_budget, total_optimal) ==
    IF total_optimal # <<>>
    THEN U64DivOf(U64Mul(total_budget, Billion), total_optimal)
    ELSE [val |-> Billion, ovf |-> FALSE]

ScaleFactor(total_budget, total_optimal) ==
    IF Less(total_budget, total_optimal) /\ total_optimal # <<>>
    THEN U64DivOf(U64Mul(total_budget, Billion), total_optimal)
    ELSE [val |-> Billion, ovf |-> FALSE]

\* (optimal_amounts[i] * scale_factor) / 1_000_000_000
ScaledAmount(optimal, scale_factor) ==
    U64DivOf(U64Mul(optimal, scale_factor), Billion)

\* (scaled_amount as i64 * min_ev_threshold_bps as i64) / 10_000
I64DivOf(n, d) == [val |-> STruncDiv(n.val, d), ovf |-> n.ovf]

MinEvLamports(scaled_amount, min_ev_threshold_bps) ==
    I64DivOf(I64Mul(AsI64(scaled_amount), SNum(min_ev_threshold_bps)),
             Num(10000))

\* evs[i] * 10_000 / amounts[i] as i64 and its .abs(), computed for the log
\* line of each deployment: whether the product or the absolute value
\* leaves i64.  amounts[i] is never 0 here, so the division is defined.
AbsOverflows(ev_bps) == SLess(I64Max, ev_bps) \/ ev_bps = I64Min

EvBpsOverflows(n, d) ==
    n.ovf \/ AbsOverflows(SInt(n.val.neg # d.neg, Div(n.val.mag, d.mag)))

LogEvOverflows(ev, amount) ==
    EvBpsOverflows(I64Mul(ev, SNum(10000)), AsI64(amount))

I16Min == -32768

RECURSIVE SumAmounts(_, _)
SumOf(sum, x) == Flagged(U64Add(sum.val, x), sum.ovf)

\* amounts[..n].iter().sum()
SumAmounts(amts, n) ==
    IF n = 0 THEN [val |-> <<>>, ovf |-> FALSE]
    ELSE SumOf(SumAmounts(amts, n - 1), At(amts, n - 1))

----------------------------------------------------------------------------
(* The instruction as a state machine: process_ore_deploy and the loops of *)
(* calculate_optimal_deployments, one action per step.                     *)

VARIABLES
    round,            \* OreRound: deployed[0..24], total_deployed, motherlode
    ix_data,          \* OreDeployIxData
    overflow_checks,  \* the build: TRUE panics on `*`/`+` overflow, FALSE wraps
    pc,
    ore_value, blocks, optimal_amounts, total_optimal, scale_factor,
    i,                \* the running loop's index
    count, amounts, indices, evs,
    calls,            \* the Deploy instructions invoked on the ORE program
    result,           \* what process_ore_deploy returned, "none" while running
    overflowed,       \* the unchecked operations that have overflowed
    isqrt_n, isqrt_out

vars == <<round, ix_data, overflow_checks, pc, ore_value, blocks,
          optimal_amounts, total_optimal, scale_factor, i, count, amounts,
          indices, evs, calls, result, overflowed, isqrt_n, isqrt_out>>

inputs == <<round, ix_data, overflow_checks, isqrt_n, isqrt_out>>
sizing == <<ore_value, blocks, optimal_amounts, total_optimal>>
plan   == <<scale_factor, count, amounts, indices, evs>>


\* process_ore_deploy returns the error: nothing else changes
Return(r) ==
    /\ pc' = "Done"
    /\ result' = r
    /\ UNCHANGED <<inputs, sizing, plan, i, calls, overflowed>>

\* an unchecked operation of this step overflowed and the build checks it
Panics(ovf) == ovf /\ overflow_checks

\* the panic of an overflow check: the instruction fails at that operation
Panic(site) ==
    /\ pc' = "Done"
    /\ result' = "Panic"
    /\ overflowed' = overflowed \cup {site}
    /\ UNCHANGED <<inputs, sizing, plan, i, calls>>

Site(ovf, site) == IF ovf THEN {site} ELSE {}

\* the test of num_blocks without its upper limit
ZeroNumBlocks(num_blocks) == num_blocks = 0

\* line 57: ix_data.num_blocks == 0 || ix_data.num_blocks > 5
BadNumBlocks(num_blocks) == num_blocks = 0 \/ num_blocks > MaxCandidates

\* lines 57-85: the two validations, then the log of the request, whose
\* min_ev_threshold_bps.abs() overflows i16 for -32768
Validate ==
    /\ pc = "Validating"
    /\ IF BadNumBlocks(ix_data.num_blocks)
       THEN Return("InvalidInstructionData")
       ELSE IF ix_data.ore_price_lamports = Zero
       THEN Return("InvalidInstructionData")
       ELSE IF Panics(ix_data.min_ev_threshold_bps = I16Min)
       THEN Panic("threshold_abs")
       ELSE /\ pc' = "Ranking"
            /\ overflowed' =
                   overflowed \cup Site(ix_data.min_ev_threshold_bps = I16Min,
                                        "threshold_abs")
            /\ UNCHANGED <<inputs, sizing, plan, i, calls, result>>

\* lines 164-175: ore_value, and the blocks paired with their indices
RankWith(v) ==
    IF Panics(v.ovf) THEN Panic("ore_value")
    ELSE /\ ore_value' = v.val
         /\ blocks' = IndexBlocks(round.deployed, NB)
         /\ i' = 0
         /\ pc' = "Sorting"
         /\ overflowed' = overflowed \cup Site(v.ovf, "ore_value")
         /\ UNCHANGED <<inputs, optimal_amounts, total_optimal, plan, calls,
                        result>>

Rank ==
    /\ pc = "Ranking"
    /\ RankWith(OreValue(ix_data.ore_price_lamports, round.motherlode))

\* lines 177-188: one pass of the bubble sort (for i in 0..24); after the
\* last pass the sizing loop starts, its amounts and total at zero
Sort ==
    /\ pc = "Sorting"
    /\ blocks' = BubbleInner(blocks, i, 0)
    /\ IF i + 1 < NB - 1
       THEN /\ i' = i + 1
            /\ pc' = "Sorting"
            /\ UNCHANGED <<optimal_amounts, total_optimal>>
       ELSE /\ i' = 0
            /\ pc' = "Sizing"
            /\ optimal_amounts' = Fill(MaxCandidates, Zero)
            /\ total_optimal' = Zero
    /\ UNCHANGED <<inputs, ore_value, plan, calls, result, overflowed>>

\* lines 190-198: one iteration of the sizing loop
SizeWith(optimal) ==
    IF Panics(optimal.ovf) THEN Panic("kelly_optimal")
    ELSE /\ optimal_amounts' = Put(optimal_amounts, i, optimal.val)
         /\ total_optimal' = saturating_add(total_optimal, optimal.val)
         /\ i' = i + 1
         /\ pc' = IF i + 1 < ix_data.num_blocks THEN "Sizing" ELSE "Scaling"
         /\ overflowed' = overflowed \cup Site(optimal.ovf, "kelly_optimal")
         /\ UNCHANGED <<inputs, ore_value, blocks, plan, calls, result>>

Size ==
    /\ pc = "Sizing"
    /\ SizeWith(calculate_kelly_optimal(At(blocks, i).size,
                                        round.total_deployed, ore_value))

\* lines 200-211: the scale factor, and the filtering loop's start
ScaleWith(f) ==
    IF Panics(f.ovf) THEN Panic("scale_factor")
    ELSE /\ scale_factor' = f.val
         /\ count' = 0
         /\ amounts' = Fill(MaxCandidates, Zero)
         /\ indices' = Fill(MaxCandidates, NoIndex)
         /\ evs' = Fill(MaxCandidates, SNum(0))
         /\ i' = 0
         /\ pc' = "Filtering"
         /\ overflowed' = overflowed \cup Site(f.ovf, "scale_factor")
         /\ UNCHANGED <<inputs, sizing, calls, result>>

Scale ==
    /\ pc = "Scaling"
    /\ ScaleWith(ScaleFactor(ix_data.total_amount, total_optimal))

\* the loop goes on to i + 1, or is over
FilterNext ==
    /\ i' = i + 1
    /\ pc' = IF i + 1 < ix_data.num_blocks THEN "Filtering" ELSE "Returned"

\* the failing candidate skipped and the loop carried on
SkipCandidate ==
    /\ FilterNext
    /\ UNCHANGED <<count, amounts, indices, evs>>

\* lines 238-241: break, the filtering loop is left at its first failing
\* candidate
Break ==
    /\ i' = i
    /\ pc' = "Returned"
    /\ UNCHANGED <<count, amounts, indices, evs>>

\* lines 227-241: the candidate is taken when its EV reaches the threshold,
\* and the loop is left when it does not
FilterEv(scaled, ev, min_ev) ==
    IF Panics(ev.ovf) THEN Panic("ev")
    ELSE IF Panics(min_ev.ovf) THEN Panic("min_ev")
    ELSE /\ overflowed' = overflowed \cup Site(scaled.ovf, "scaled_amount")
                               \cup Site(ev.ovf, "ev")
                               \cup Site(min_ev.ovf, "min_ev")
         /\ UNCHANGED <<inputs, sizing, scale_factor, calls, result>>
         /\ IF SLeq(min_ev.val, ev.val)
            THEN /\ amounts' = Put(amounts, count, scaled.val)
                 /\ indices' = Put(indices, count, At(blocks, i).idx)
                 /\ evs' = Put(evs, count, ev.val)
                 /\ count' = count + 1
                 /\ FilterNext
            ELSE Break

\* lines 219-225: the scaled amount; zero is skipped
FilterWith(scaled) ==
    IF Panics(scaled.ovf) THEN Panic("scaled_amount")
    ELSE IF scaled.val = Zero
    THEN \* continue
         /\ FilterNext
         /\ overflowed' = overflowed \cup Site(scaled.ovf, "scaled_amount")
         /\ UNCHANGED <<inputs, sizing, plan, calls, result>>
    ELSE FilterEv(scaled,
                  calculate_ev(At(blocks, i).size, scaled.val,
                               round.total_deployed, ore_value),
                  MinEvLamports(scaled.val, ix_data.min_ev_threshold_bps))

\* lines 213-242: one iteration of the scaling and filtering loop
Filter ==
    /\ pc = "Filtering"
    /\ IF At(optimal_amounts, i) = Zero
       THEN \* continue
            /\ FilterNext
            /\ UNCHANGED <<inputs, sizing, plan, calls, result, overflowed>>
       ELSE FilterWith(ScaledAmount(At(optimal_amounts, i), scale_factor))

\* the test of the empty plan off by one
AtMostOneSelected(num_selected) == num_selected <= 1

\* line 96: num_selected == 0
NoneSelected(num_selected) == num_selected = 0

\* lines 96-104: no block selected is the error NoPositiveEvBlocks
CheckSelected ==
    /\ pc = "Returned"
    /\ IF NoneSelected(count) THEN Return("NoPositiveEvBlocks")
       ELSE /\ pc' = "Deploying"
            /\ i' = 0
            /\ UNCHANGED <<inputs, sizing, plan, calls, result, overflowed>>

\* lines 107-126: the log lines of deployment i
LogWith(o) ==
    IF Panics(o) THEN Panic("ev_bps")
    ELSE /\ pc' = "Invoking"
         /\ overflowed' = overflowed \cup Site(o, "ev_bps")
         /\ UNCHANGED <<inputs, sizing, plan, i, calls, result>>

LogDeployment ==
    /\ pc = "Deploying"
    /\ LogWith(LogEvOverflows(At(evs, i), At(amounts, i)))

\* the block index passed where the mask is expected
IndexAsMask(x, k) == k

RECURSIVE Shl(_, _)
\* x << k on u32, for k < 32 - (bits of x)
Shl(x, k) == IF k = 0 THEN x ELSE Shl(2 * x, k - 1)

\* lines 128-142 and execute_deploy: the Deploy instruction of the ORE
\* program (discriminator 6, sol_amount, squares) is invoked and succeeds
DeploySucceeds ==
    /\ pc = "Invoking"
    /\ calls' = Append(calls, [discriminator |-> ORE_DEPLOY_IX_DISCRIMINATOR,
                               sol_amount |-> At(amounts, i),
                               squares |-> Shl(1, At(indices, i))])
    /\ i' = i + 1
    /\ pc' = IF i + 1 < count THEN "Deploying" ELSE "Summing"
    /\ UNCHANGED <<inputs, sizing, plan, result, overflowed>>

\* slice_invoke(..)? : the invoked program fails and the error is returned
DeployFails ==
    /\ pc = "Invoking"
    /\ Return("CpiError")

\* lines 145-152: the total of the log, and Ok(())
FinishWith(total) ==
    IF Panics(total.ovf) THEN Panic("total")
    ELSE /\ pc' = "Done"
         /\ result' = "Ok"
         /\ overflowed' = overflowed \cup Site(total.ovf, "total")
         /\ UNCHANGED <<inputs, sizing, plan, i, calls>>

Finish ==
    /\ pc = "Summing"
    /\ FinishWith(SumAmounts(amounts, count))

----------------------------------------------------------------------------
(* The rounds and requests the instruction is run on *)

\* the two blocks that vary hold 0, MaxBlockSize - 2 or MaxBlockSize
MaxBlockSize == 8
\* what each of the other 23 blocks holds
FillerSize == 10
\* budgets 0 and 10^0 .. 10^MaxBudgetExp
MaxBudgetExp == 2

RECURSIVE Pow10(_)
Pow10(k) == IF k = 0 THEN 1 ELSE 10 * Pow10(k - 1)

BlockSizes == {0, MaxBlockSize - 2, MaxBlockSize}
Budgets == {Zero} \cup {Num(Pow10(k)) : k \in 0..MaxBudgetExp}
Thresholds == {I16Min, 0, 10000}
Prices == {Zero, Num(1), Num(100), Num(1000), MaxU64}
Motherlodes == {Zero, Num(6250)}
\* num_blocks: the two rejected values, and one, two and five candidates
NumBlocks == {0, 1, 2, MaxCandidates, MaxCandidates + 1}

\* a round whose blocks 7 and 3 hold a and b and whose other blocks hold the
\* filler; total_deployed is the sum of the blocks, as the ORE program keeps it
Round(a, b, motherlode) ==
    [deployed |-> Put(Put(Fill(NB, Num(FillerSize)), 7, Num(a)), 3, Num(b)),
     total_deployed |-> Num(a + b + (NB - 2) * FillerSize),
     motherlode |-> motherlode]

\* nothing computed, nothing invoked, nothing returned yet
Fresh ==
    /\ ore_value = Zero
    /\ blocks = Fill(NB, [idx |-> 0, size |-> Zero])
    /\ optimal_amounts = Fill(MaxCandidates, Zero)
    /\ total_optimal = Zero
    /\ scale_factor = Zero
    /\ i = 0
    /\ count = 0
    /\ amounts = Fill(MaxCandidates, Zero)
    /\ indices = Fill(MaxCandidates, NoIndex)
    /\ evs = Fill(MaxCandidates, SNum(0))
    /\ calls = <<>>
    /\ result = "none"
    /\ overflowed = {}

\* the state once the round account and the instruction data are decoded
\* (lines 54-55)
Init ==
    /\ \E a \in BlockSizes, b \in BlockSizes, m \in Motherlodes :
           round = Round(a, b, m)
    /\ \E budget \in Budgets, price \in Prices, thr \in Thresholds,
          nb \in NumBlocks :
           ix_data = [total_amount |-> budget,
                      ore_price_lamports |-> price,
                      min_ev_threshold_bps |-> thr,
                      num_blocks |-> nb]
    /\ overflow_checks \in BOOLEAN
    /\ pc = "Validating"
    /\ Fresh
    /\ isqrt_n = Zero
    /\ isqrt_out = Zero

Next ==
    \/ Validate
    \/ Rank
    \/ Sort
    \/ Size
    \/ Scale
    \/ Filter
    \/ CheckSelected
    \/ LogDeployment
    \/ DeploySucceeds
    \/ DeployFails
    \/ Finish

Spec == Init /\ [][Next]_vars

----------------------------------------------------------------------------
(* isqrt on its own: every n up to MaxIsqrtInput, and the largest u64 *)

MaxIsqrtInput == 1200

\* the variables of the instruction, at rest
Idle ==
    /\ round = Round(0, 0, Zero)
    /\ ix_data = [total_amount |-> Zero, ore_price_lamports |-> Zero,
                  min_ev_threshold_bps |-> 0, num_blocks |-> 0]
    /\ overflow_checks = TRUE
    /\ Fresh

InitIsqrt ==
    /\ Idle
    /\ pc = "isqrt"
    /\ isqrt_n \in {Num(n) : n \in 0..MaxIsqrtInput} \cup {MaxU64}
    /\ isqrt_out = Zero

\* the call isqrt(n)
CallIsqrt ==
    /\ pc = "isqrt"
    /\ isqrt_out' = isqrt(isqrt_n)
    /\ pc' = "isqrt returned"
    /\ UNCHANGED <<round, ix_data, overflow_checks, isqrt_n, sizing, plan, i,
                   calls, result, overflowed>>

SpecIsqrt == InitIsqrt /\ [][CallIsqrt]_vars

----------------------------------------------------------------------------
(* Properties.  Ranks are 0 .. num_blocks - 1, positions in the sorted      *)
(* blocks; the plan is count, amounts, indices and evs once                 *)
(* calculate_optimal_deployments has returned (pc = "Returned").            *)

Ranks == 0..(ix_data.num_blocks - 1)
Selected == 0..(count - 1)

RECURSIVE Total(_, _)
\* the exact sum of arr[0..n-1]
Total(arr, n) == IF n = 0 THEN Zero ELSE Add(Total(arr, n - 1), At(arr, n - 1))

\* what the filtering loop computes for the candidate at rank r
Scaled(r) == ScaledAmount(At(optimal_amounts, r), scale_factor).val
Ev(r) ==
    calculate_ev(At(blocks, r).size, Scaled(r), round.total_deployed,
                 ore_value).val
MinEv(r) == MinEvLamports(Scaled(r), ix_data.min_ev_threshold_bps).val

\* the candidate at rank r has a nonzero scaled amount and fails, or passes,
\* its own threshold test
FailsThreshold(r) == Scaled(r) # Zero /\ SLess(Ev(r), MinEv(r))
PassesThreshold(r) == Scaled(r) # Zero /\ SLeq(MinEv(r), Ev(r))

\* the block at rank r is an entry of the plan
InPlan(r) == \E c \in Selected : At(indices, c) = At(blocks, r).idx

\* C1: the amounts of the plan never sum to more than total_budget, at any
\* point of the instruction and whether or not the scale factor was applied
PlanWithinBudget == Leq(Total(amounts, count), ix_data.total_amount)

\* a returned plan of two or more blocks whose amounts were scaled down
ScaledPlanReturned ==
    /\ pc = "Returned"
    /\ count >= 2
    /\ Less(scale_factor, Billion)
    /\ overflowed = {}

\* C2: isqrt(n) is the floor of the square root of n, and isqrt(0) = 0,
\* isqrt(1) = isqrt(2) = isqrt(3) = 1
IsqrtIsFloor ==
    pc = "isqrt returned" =>
        /\ Leq(Mul(isqrt_out, isqrt_out), isqrt_n)
        /\ Less(isqrt_n, Mul(Add(isqrt_out, Num(1)), Add(isqrt_out, Num(1))))
        /\ (isqrt_n = Zero => isqrt_out = Zero)
        /\ (isqrt_n \in {Num(1), Num(2), Num(3)} => isqrt_out = Num(1))

\* the unchecked operations of calculate_optimal_deployments,
\* calculate_kelly_optimal and calculate_ev
OptimizerSites ==
    {"ore_value", "kelly_optimal", "scale_factor", "scaled_amount", "ev",
     "min_ev"}

\* C3: no arithmetic operation of the optimizer overflows: none wraps and
\* none panics, whatever the request and the round
OptimizerNeverOverflows == overflowed \cap OptimizerSites = {}

\* a request the validation rejects
InvalidRequest ==
    \/ ix_data.num_blocks = 0
    \/ ix_data.num_blocks > 5
    \/ ix_data.ore_price_lamports = Zero

\* C4: an invalid request is rejected by the validation with
\* InvalidInstructionData: nothing is ranked, sized, scaled or filtered
\* for it and no Deploy instruction is invoked
InvalidRejectedFirst ==
    InvalidRequest =>
        /\ pc \in {"Validating", "Done"}
        /\ pc = "Done" => result = "InvalidInstructionData"
        /\ calls = <<>>
        /\ ore_value = Zero
        /\ blocks = Fill(NB, [idx |-> 0, size |-> Zero])
        /\ optimal_amounts = Fill(MaxCandidates, Zero)
        /\ total_optimal = Zero
        /\ scale_factor = Zero
        /\ count = 0
        /\ overflowed = {}

\* an invalid request has been rejected
InvalidRejected ==
    /\ InvalidRequest
    /\ pc = "Done"
    /\ result = "InvalidInstructionData"

\* the request of Scenario C on a round whose 25 blocks all hold something
ScenarioC ==
    /\ ix_data.total_amount = Num(1)
    /\ ix_data.ore_price_lamports = Num(1)
    /\ ix_data.min_ev_threshold_bps = 10000
    /\ ix_data.num_blocks = 1
    /\ \A k \in 0..(NB - 1) : At(round.deployed, k) # Zero
    /\ round.total_deployed = Total(round.deployed, NB)

EarlyExit ==
    pc = "Returned" =>
        \A r \in Ranks :
            FailsThreshold(r) => \A q \in Ranks : q > r => ~InPlan(q)

\* the plan was returned at a failing candidate, and a candidate of a later
\* rank meets its own threshold
LaterCandidateLeftOut ==
    /\ pc = "Returned"
    /\ overflowed = {}
    /\ \E r \in Ranks :
           /\ FailsThreshold(r)
           /\ \E q \in Ranks : q > r /\ PassesThreshold(q) /\ ~InPlan(q)

\* the 25 blocks by size, smallest first, blocks of the same size by index
RankedStably ==
    /\ \A r \in 0..(NB - 2) :
           \/ Less(At(blocks, r).size, At(blocks, r + 1).size)
           \/ /\ At(blocks, r).size = At(blocks, r + 1).size
              /\ At(blocks, r).idx < At(blocks, r + 1).idx
    /\ \A r \in 0..(NB - 1) :
           At(blocks, r).size = At(round.deployed, At(blocks, r).idx)

\* C7: the indices of the returned plan are pairwise distinct and in
\* strictly increasing rank, the ranking being the stable ascending sort of
\* the 25 blocks; they are ranks below num_blocks, and count <= num_blocks
\* <= 5
PlanInRankOrder ==
    pc = "Returned" =>
        /\ RankedStably
        /\ count <= ix_data.num_blocks
        /\ ix_data.num_blocks <= 5
        /\ \A c \in Selected, d \in Selected :
               c # d => At(indices, c) # At(indices, d)
        /\ \A c \in Selected :
               \E r \in Ranks :
                   /\ At(blocks, r).idx = At(indices, c)
                   /\ c + 1 < count =>
                          \E q \in Ranks :
                              /\ q > r
                              /\ At(blocks, q).idx = At(indices, c + 1)

\* a plan of two blocks of the same size has been returned
TiedBlocksPlanned ==
    /\ pc = "Returned"
    /\ count >= 2
    /\ At(blocks, 0).size = At(blocks, 1).size
    /\ InPlan(0)
    /\ InPlan(1)

\* the Deploy instruction of plan entry c
DeployOf(c) ==
    [discriminator |-> 6,
     sol_amount |-> At(amounts, c),
     squares |-> 2 ^ At(indices, c)]

\* C8: the Deploy instructions invoked are those of the plan's entries, in
\* the plan's order, each with the entry's amount and the mask of the one
\* bit of its block; all count of them when the instruction ends with Ok,
\* which it does unless a Deploy fails; with an empty plan none is invoked
\* and the instruction ends with NoPositiveEvBlocks
DeploysFollowPlan ==
    /\ Len(calls) <= count
    /\ \A c \in 0..(Len(calls) - 1) :
           /\ At(calls, c) = DeployOf(c)
           /\ At(indices, c) \in 0..(NB - 1)
    /\ result = "Ok" => count >= 1 /\ Len(calls) = count
    /\ result = "NoPositiveEvBlocks" => count = 0 /\ calls = <<>>
    /\ pc \in {"Deploying", "Invoking", "Summing"} => count >= 1
    /\ overflow_checks => overflowed \cap {"ev_bps", "total"} = {}

\* a plan of two or more blocks has been deployed
PlanDeployed ==
    /\ pc = "Done"
    /\ result = "Ok"
    /\ count >= 2
    /\ Len(calls) = count

\* the sum of the unconstrained amounts of the num_blocks candidates
Unconstrained == Total(optimal_amounts, ix_data.num_blocks)

NoScalingNeeded == Leq(Unconstrained, ix_data.total_amount)

\* total_budget / unconstrained sum, in 1e9 fixed point
BudgetShare == Div(Mul(ix_data.total_amount, Billion), Unconstrained)

\* C9: when the unconstrained sum is within the budget (or zero) the scale
\* factor is 1e9 and every scaled amount is the unconstrained amount; when
\* it is not, the factor is floor(total_budget * 1e9 / sum) and every scaled
\* amount is floor(amount * factor / 1e9); the plan's amounts are the scaled
\* amounts of their candidates
BudgetScaling ==
    pc = "Returned" =>
        /\ scale_factor = (IF NoScalingNeeded THEN Billion ELSE BudgetShare)
        /\ \A r \in Ranks :
               Scaled(r) = IF NoScalingNeeded
                           THEN At(optimal_amounts, r)
                           ELSE Div(Mul(At(optimal_amounts, r), BudgetShare),
                                    Billion)
        /\ \A c \in Selected :
               \E r \in Ranks :
                   /\ At(blocks, r).idx = At(indices, c)
                   /\ At(amounts, c) = Scaled(r)

\* a plan has been returned whose amounts needed no scaling
UnscaledPlanReturned ==
    /\ pc = "Returned"
    /\ count >= 1
    /\ NoScalingNeeded
    /\ Unconstrained # Zero
    /\ At(amounts, 0) = At(optimal_amounts, 0)

\* C10: when the candidate at rank r fails its threshold test, so does every
\* candidate of a later rank that has a nonzero scaled amount
SmallestBlocksBestEv ==
    (pc = "Returned" /\ overflowed = {}) =>
        \A r \in Ranks, q \in Ranks :
            (r < q /\ FailsThreshold(r) /\ Scaled(q) # Zero)
                => FailsThreshold(q)

=============================================================================
